---- MODULE Spec2Model ----
(***************************************************************************)
(* OkayDokki task orchestration: TaskService (lifecycle gate, single-      *)
(* flight approvals, audit trail), TaskRepository.transition, TaskRunner   *)
(* (agent -> sandbox -> diff policy -> draft PR) and the diff policy       *)
(* evaluator.                                                              *)
(*                                                                         *)
(* The service runs on one JavaScript event loop: the code between two     *)
(* awaits is one atomic step.  Every action below is one such segment.     *)
(***************************************************************************)
EXTENDS Integers, Sequences, FiniteSets, TLC

\* ------------------------------------------------------------------ bounds
\* task rows that can be created
MaxTasks == 2
\* invocation records kept for accepted approvals
MaxRuns == 2
\* lines the audit file may still take once it has started to fail
MaxSinkLeft == 2
MaxTicks == 3
MaxVersion == 2
MaxLoops == 2
MaxUpdateId == 2

TaskIds == 1..MaxTasks
RunIds == 1..MaxRuns
Actors == {"tg:1"}

\* ------------------------------------------------------ lifecycle (code)
TaskStatus ==
    {"CREATED", "WAIT_CLARIFY", "WAIT_APPROVE_WRITE", "RUNNING",
     "PR_CREATED", "COMPLETED", "FAILED"}

\* the table with the edge PR_CREATED -> COMPLETED left out
transitionsNoComplete ==
    [s \in TaskStatus |->
        CASE s = "CREATED"            -> {"WAIT_CLARIFY", "WAIT_APPROVE_WRITE", "FAILED"}
          [] s = "WAIT_CLARIFY"       -> {"WAIT_APPROVE_WRITE", "FAILED"}
          [] s = "WAIT_APPROVE_WRITE" -> {"RUNNING", "FAILED"}
          [] s = "RUNNING"            -> {"PR_CREATED", "COMPLETED", "FAILED"}
          [] s = "PR_CREATED"         -> {"FAILED"}
          [] s = "COMPLETED"          -> {}
          [] s = "FAILED"             -> {}]

transitions ==
    [s \in TaskStatus |->
        CASE s = "CREATED"            -> {"WAIT_CLARIFY", "WAIT_APPROVE_WRITE", "FAILED"}
          [] s = "WAIT_CLARIFY"       -> {"WAIT_APPROVE_WRITE", "FAILED"}
          [] s = "WAIT_APPROVE_WRITE" -> {"RUNNING", "FAILED"}
          [] s = "RUNNING"            -> {"PR_CREATED", "COMPLETED", "FAILED"}
          [] s = "PR_CREATED"         -> {"COMPLETED", "FAILED"}
          [] s = "COMPLETED"          -> {}
          [] s = "FAILED"             -> {}]

canTransition(from, to) == to \in transitions[from]

\* --------------------------------------------------- diff policy (code)
\* A diff is a sequence of lines.  A line keeps what the evaluator's
\* regular expressions look at: its kind, up to two path tokens and its
\* byte length.  A token is a root ("a", "b", "work" for /work/..., "host"
\* for the executor's <tmp>/okd-host-<id>/work/..., "devnull") and the path
\* below that root as a sequence of segments.
NoTok == [root |-> "none", path |-> <<>>]
NoFile == <<"<null>">>
HostPrefix == <<"", "tmp", "okd-host-1", "work">>

Tok(root, path) == [root |-> root, path |-> path]
Line(kind, tok, tok2, len) == [kind |-> kind, tok |-> tok, tok2 |-> tok2, len |-> len]

blockedPathPrefixes == << <<".github", "workflows">>, <<"secrets">> >>
maxChangedFiles == 10
maxDiffBytes == 20000
disallowBinaryPatch == TRUE

\* pathValue.replace(/^\.?\//, "")
normalizePath(p) ==
    IF Len(p) > 1 /\ p[1] \in {".", ""} THEN Tail(p) ELSE p

\* the string the token stands for, split at "/"
TokSegments(tok) ==
    CASE tok.root = "work"    -> <<"", "work">> \o tok.path
      [] tok.root = "host"    -> HostPrefix \o tok.path
      [] tok.root = "devnull" -> <<"", "dev", "null">>
      [] OTHER                -> <<tok.root>> \o tok.path

NonEmptySegments(segs) == SelectSeq(segs, LAMBDA s : s # "")

extractPathFromPlusLine(tok) ==
    IF tok.root = "devnull" THEN NoFile
    ELSE IF tok.root = "work" THEN normalizePath(tok.path)
    ELSE IF tok.root = "b" THEN normalizePath(tok.path)
    ELSE NoFile

extractPathFromBinaryLine(tok) ==
    IF tok.root = "work" THEN normalizePath(tok.path)
    ELSE IF tok.root = "b" THEN normalizePath(tok.path)
    ELSE LET parts == NonEmptySegments(TokSegments(tok)) IN
         IF Len(parts) >= 2
         THEN <<parts[Len(parts) - 1], parts[Len(parts)]>>
         ELSE parts

\* the file one line contributes to extractChangedFiles, NoFile if none
FileOfLine(line) ==
    CASE line.kind = "git" ->
            normalizePath(IF line.tok2.root = "devnull" THEN line.tok.path
                          ELSE line.tok2.path)
      [] line.kind = "plus"     -> extractPathFromPlusLine(line.tok)
      [] line.kind = "binfiles" -> extractPathFromBinaryLine(line.tok2)
      [] OTHER -> NoFile

InSeq(x, s) == \E i \in 1..Len(s) : s[i] = x

RECURSIVE extractFrom(_, _, _)
extractFrom(lines, i, acc) ==
    IF i > Len(lines) THEN acc
    ELSE LET f == FileOfLine(lines[i]) IN
         extractFrom(lines, i + 1,
                     IF f = NoFile \/ InSeq(f, acc) THEN acc ELSE Append(acc, f))

extractChangedFiles(diff) == extractFrom(diff, 1, <<>>)

RECURSIVE byteLength(_)
byteLength(diff) ==
    IF diff = <<>> THEN 0 ELSE Head(diff).len + byteLength(Tail(diff))

startsWith(file, prefix) ==
    /\ Len(file) > Len(prefix)
    /\ SubSeq(file, 1, Len(prefix)) = prefix

\* the prefix test written as an equality with the configured prefix
isBlockedWholePath(file) ==
    \E k \in 1..Len(blockedPathPrefixes) : normalizePath(file) = blockedPathPrefixes[k]

isBlocked(file) ==
    \E k \in 1..Len(blockedPathPrefixes) :
        startsWith(normalizePath(file), normalizePath(blockedPathPrefixes[k]))

hasBinaryMarker(diff) ==
    \E i \in 1..Len(diff) : diff[i].kind \in {"gitbin", "binfiles"}

evaluateDiffPolicy(diff) ==
    LET files == extractChangedFiles(diff)
        blocked == SelectSeq(files, isBlocked)
    IN  (IF byteLength(diff) > maxDiffBytes THEN <<"diff size">> ELSE <<>>)
        \o (IF Len(files) > maxChangedFiles THEN <<"changed file count">> ELSE <<>>)
        \o [k \in 1..Len(blocked) |-> "blocked path"]
        \o (IF disallowBinaryPatch /\ hasBinaryMarker(diff)
            THEN <<"binary patch">> ELSE <<>>)

\* the emptiness test left out
hasDiffAlways(diff) == TRUE

\* diff.trim().length > 0
hasDiffOf(diff) == \E i \in 1..Len(diff) : diff[i].kind # "blank"

\* ------------------------------------------ candidate diffs (the inputs)
GitFile(path) ==
    << Line("git", Tok("a", path), Tok("b", path), 40),
       Line("minus", Tok("a", path), NoTok, 20),
       Line("plus", Tok("b", path), NoTok, 20),
       Line("text", NoTok, NoTok, 30) >>

HostFile(path) ==
    << Line("ru", Tok("repo", path), Tok("host", path), 80),
       Line("minus", Tok("repo", path), NoTok, 40),
       Line("plus", Tok("host", path), NoTok, 60),
       Line("text", NoTok, NoTok, 30) >>

RECURSIVE ManyFiles(_)
ManyFiles(n) ==
    IF n = 0 THEN <<>> ELSE ManyFiles(n - 1) \o GitFile(<<"src", ToString(n)>>)

AllDiffNames ==
    {"empty", "blank", "ok", "okHost", "workflow", "secretsWork", "secretsHost",
     "binary", "many", "huge"}

\* the diffs the agent produces in the task model
DiffNames == {"empty", "ok", "workflow"}

DiffText(name) ==
    CASE name = "empty"       -> <<>>
      [] name = "blank"       -> << Line("blank", NoTok, NoTok, 1) >>
      [] name = "ok"          -> GitFile(<<"src", "a.ts">>)
      [] name = "okHost"      -> HostFile(<<"src", "a.ts">>)
      [] name = "workflow"    -> GitFile(<<".github", "workflows", "ci.yml">>)
      [] name = "secretsWork" ->
            << Line("ru", Tok("repo", <<"secrets", "k">>), Tok("work", <<"secrets", "k">>), 60),
               Line("plus", Tok("work", <<"secrets", "k">>), NoTok, 30) >>
      [] name = "secretsHost" -> HostFile(<<"secrets", "k">>)
      [] name = "binary"      -> << Line("gitbin", NoTok, NoTok, 17) >>
      [] name = "many"        -> ManyFiles(maxChangedFiles + 1)
      [] name = "huge"        ->
            GitFile(<<"src", "a.ts">>) \o << Line("text", NoTok, NoTok, maxDiffBytes) >>

\* ------------------------------------------------------------------ state
VARIABLES
    status,            \* tasks.status per task_id; "NONE" = no row yet
    approvedBy,        \* tasks.approved_by per task_id; "null" until set
    statusLog,         \* every status value written to the row, in order
    audit,             \* the audit file's lines per taskId, in file order
    runningApprovals,  \* TaskService.runningApprovals
    progressByTask,    \* TaskService.progressByTask
    runs,              \* the approve calls that got past the gate
    repoState,         \* snapshot dir: "absent", "incomplete" (config lacks a field), "ready"
    sinkLeft,          \* appends the audit file still accepts; -1 = healthy
    taskRow,           \* tasks.repo, tasks.intent and tasks.agent per task_id
    createdTask,       \* the TaskSpec createTask built and returned, per task_id
    now,               \* Date.now()
    pendingPlans,      \* TaskGateway.pendingPlans holds the plan
    planVersion,       \* version of the plan object; 0 = no plan drafted yet
    awaitingPlanFeedback, \* TaskGateway.awaitingPlanFeedback holds the session
    processedCallbacks,   \* TaskGateway.processedCallbacks: time per key, 0 = no entry
    revising,          \* handlePlanFeedback calls waiting for chat.ask
    presenting,        \* approved plans whose task is not created yet
    lastCallback,      \* the callback the adapter delivered last, and when
    polling,           \* TelegramAdapter.polling
    stopRequested,     \* TelegramAdapter.stopRequested
    loopPc,            \* where each pollLoop activation stands; "none" = not running
    updateOffset,      \* TelegramAdapter.updateOffset
    lastCall           \* the last of startPolling / stopPolling called on the adapter

vars ==
    <<status, approvedBy, statusLog, audit, runningApprovals, progressByTask,
      runs, repoState, sinkLeft, taskRow, createdTask, now,
      pendingPlans, planVersion, awaitingPlanFeedback, processedCallbacks,
      revising, presenting, lastCallback,
      polling, stopRequested, loopPc, updateOffset, lastCall>>

\* the Telegram adapter's polling state
pollVars == <<polling, stopRequested, loopPc, updateOffset, lastCall>>

\* the gateway's own state, and the last callback it was handed
gatewayVars ==
    <<pendingPlans, planVersion, awaitingPlanFeedback, processedCallbacks,
      revising, presenting, lastCallback>>

\* one accepted approve call and the runner invocation it makes.  cause is
\* what made a collaborator throw; hostTemp and sandboxTemp are the temporary
\* directories of the executor and of the sandbox ("none", "live",
\* "deleted"); container tells whether docker run was started;
\* snapshotTouched whether the snapshot directory was written to.
IdleRun ==
    [pc |-> "idle", task |-> 0, outcome |-> "none", diff |-> "none",
     exit |-> -1, testsResult |-> "none", prLink |-> "null",
     stages |-> <<>>, cleanups |-> 0,
     cause |-> "none", testCommand |-> <<>>, violations |-> <<>>,
     hostTemp |-> "none", sandboxTemp |-> "none", container |-> FALSE,
     snapshotTouched |-> FALSE, snapshotCopied |-> {}, snapshotDiffed |-> {}]

Rec(t, ev, code, tests, link, decision) ==
    [taskId |-> t, eventType |-> ev, errorCode |-> code, testsResult |-> tests,
     prLink |-> link, approvalDecision |-> decision]

\* createTask's input as far as the row keeps it.  repoState is the snapshot
\* directory of the repo a call resolves, as found at the time of that call:
\* no call resolves two repos, and SetRepo may fire between any two calls.
\* "absent" is a field the caller left undefined.
CreateTaskInputs ==
    {[repo |-> "org/name", intent |-> "fix login 500", agent |-> "absent",
      deliveryStrategy |-> "absent", baseBranch |-> "absent"],
     [repo |-> "org/other", intent |-> "add tests", agent |-> "claude",
      deliveryStrategy |-> "isolated", baseBranch |-> "develop"]}
NoRow == [repo |-> "null", intent |-> "null", agent |-> "null"]
NoTask ==
    [agent |-> "null", deliveryStrategy |-> "null", baseBranch |-> "null",
     branch |-> 0]

\* TaskService.defaults as the process builds them from its configuration
defaults == [deliveryStrategy |-> "rolling", baseBranch |-> "main", agent |-> "codex"]

\* a ?? b
orElse(a, b) == IF a = "absent" THEN b ELSE a

\* one step of the model's clock, in milliseconds
TickMs == 60 * 1000

\* The callbacks the one chat user sends, as parseAction reads their data:
\* two data strings are equal exactly when these records are.  The user
\* taps Retry and Details on tasks and the three buttons of a plan draft.
TaskCallbacks ==
    {[kind |-> k, taskId |-> t, version |-> 0] :
        k \in {"retry", "details"}, t \in TaskIds}
PlanCallbacks ==
    {[kind |-> k, taskId |-> 0, version |-> v] :
        k \in {"plan_approve", "plan_revise", "plan_reject"}, v \in 1..MaxVersion}
CallbackData == TaskCallbacks \cup PlanCallbacks
NoCallback == [kind |-> "none", taskId |-> 0, version |-> 0]

CALLBACK_DEDUP_TTL_MS == 2 * 60 * 1000

\* the pollLoop activations that may be in flight at once
LoopIds == 1..MaxLoops

RepoStates == {"absent", "incomplete", "ready"}
snapshotExists == repoState # "absent"
missingFields == repoState # "ready"

Init ==
    /\ status = [t \in TaskIds |-> "NONE"]
    /\ approvedBy = [t \in TaskIds |-> "null"]
    /\ statusLog = [t \in TaskIds |-> <<>>]
    /\ audit = [t \in TaskIds |-> <<>>]
    /\ runningApprovals = {}
    /\ progressByTask = [t \in TaskIds |-> "null"]
    /\ runs = [r \in RunIds |-> IdleRun]
    /\ repoState \in RepoStates
    /\ sinkLeft = -1
    /\ taskRow = [t \in TaskIds |-> NoRow]
    /\ createdTask = [t \in TaskIds |-> NoTask]
    /\ now = TickMs
    /\ pendingPlans = FALSE
    /\ planVersion = 0
    /\ awaitingPlanFeedback = FALSE
    /\ processedCallbacks = [d \in CallbackData |-> 0]
    /\ revising = 0
    /\ presenting = 0
    /\ lastCallback = [data |-> NoCallback, at |-> 0]
    /\ polling = FALSE
    /\ stopRequested = FALSE
    /\ loopPc = [l \in LoopIds |-> "none"]
    /\ updateOffset = 0
    /\ lastCall = "none"

\* The content of a repo's snapshot directory as a reader finds it: the
\* runs whose delivery has written their candidate into it so far.
snapshotWrites(repo) ==
    {q \in RunIds : runs[q].snapshotTouched /\ taskRow[runs[q].task].repo = repo}

\* ------------------------------------------------------------ audit sink
\* AuditLogger.append either writes one line or throws.  au is the task's
\* lines as written so far by the running segment.
CanAppend(t, au) == sinkLeft = -1 \/ Len(au) - Len(audit[t]) < sinkLeft

SinkAfter(t, au) ==
    IF sinkLeft = -1 THEN -1 ELSE sinkLeft - (Len(au) - Len(audit[t]))

\* ------------------------------------------------------------ task store
\* newTaskId(): an id no row has
FreshIds == {t \in TaskIds : status[t] = "NONE"}
newTaskId == CHOOSE t \in FreshIds : \A u \in FreshIds : t <= u

\* the record the next accepted approve call on task t is kept in: the one
\* numbered like the task while that is free, else the lowest free one
IdleRuns == {r \in RunIds : runs[r].pc = "idle"}
NextRun(t) ==
    IF t \in IdleRuns THEN t
    ELSE CHOOSE r \in IdleRuns : \A q \in IdleRuns : r <= q

\* ------------------------------------------------------------ createTask
\* the status chosen from the snapshot alone
createStatusSnapshotOnly ==
    IF snapshotExists THEN "WAIT_APPROVE_WRITE" ELSE "WAIT_CLARIFY"

createStatus ==
    IF snapshotExists /\ ~missingFields THEN "WAIT_APPROVE_WRITE" ELSE "WAIT_CLARIFY"

\* runtime.missingFields as resolveRepoRuntime fills it: the config file
\* when it cannot be read, else the fields it lacks
missingFieldNames ==
    CASE repoState = "absent"     -> <<"okaydokki.yaml">>
      [] repoState = "incomplete" -> <<"test_command">>
      [] OTHER                    -> <<>>

\* what createTask returns besides the task (taskService.ts 340-351)
createResult ==
    IF ~snapshotExists \/ missingFields
    THEN [needsClarify |-> TRUE, expectedPath |-> "repoPath",
          clarifyReason |-> IF snapshotExists THEN "RUNTIME_CONFIG_MISSING"
                            ELSE "SNAPSHOT_MISSING",
          missingFields |-> missingFieldNames]
    ELSE [needsClarify |-> FALSE, expectedPath |-> "null",
          clarifyReason |-> "null", missingFields |-> <<>>]

\* the TaskSpec createTask builds (taskService.ts 316-329), as far as the
\* model reads it: branch is the clock reading inside `agent/${Date.now()}`
newTask(input) ==
    [agent |-> orElse(input.agent, orElse(defaults.agent, "codex")),
     deliveryStrategy |-> orElse(input.deliveryStrategy, defaults.deliveryStrategy),
     baseBranch |-> orElse(input.baseBranch, defaults.baseBranch),
     branch |-> now]

\* the columns TaskRepository.create inserts: the tasks table's
\* delivery_strategy and base_branch are not among them
insertedRow(input, task) ==
    [repo |-> input.repo, intent |-> input.intent, agent |-> task.agent]

\* TaskRepository.toTask: the TaskSpec read back from a row; it sets neither
\* deliveryStrategy nor baseBranch
toTask(row) ==
    [repo |-> row.repo, intent |-> row.intent, agent |-> row.agent,
     deliveryStrategy |-> "absent", baseBranch |-> "absent"]

\* createTask inserting the row without appending REQUEST
CreateEffectNoRequest(input) ==
    LET t == newTaskId IN
    /\ createdTask' = [createdTask EXCEPT ![t] = newTask(input)]
    /\ taskRow' = [taskRow EXCEPT ![t] = insertedRow(input, newTask(input))]
    /\ status' = [status EXCEPT ![t] = createStatus]
    /\ statusLog' = [statusLog EXCEPT ![t] = <<createStatus>>]
    /\ UNCHANGED <<audit, sinkLeft, approvedBy, runningApprovals, progressByTask,
                   runs, repoState, now>>

CreateEffect(input) ==
    LET t == newTaskId IN
    /\ createdTask' = [createdTask EXCEPT ![t] = newTask(input)]
    /\ taskRow' = [taskRow EXCEPT ![t] = insertedRow(input, newTask(input))]
    /\ status' = [status EXCEPT ![t] = createStatus]
    /\ statusLog' = [statusLog EXCEPT ![t] = <<createStatus>>]
    /\ audit' = IF CanAppend(t, audit[t])
                THEN [audit EXCEPT ![t] =
                         Append(@, Rec(t, "REQUEST", "none", "none", "null", "none"))]
                ELSE audit
    /\ sinkLeft' = SinkAfter(t, audit'[t])
    /\ UNCHANGED <<approvedBy, runningApprovals, progressByTask, runs,
                   repoState, now>>

CreateTask(input) ==
    /\ FreshIds # {}
    /\ CreateEffect(input)
    /\ UNCHANGED <<gatewayVars, pollVars>>

\* rerun passing the default intent in place of the original's
rerunInputDefaultIntent(orig) ==
    LET original == toTask(taskRow[orig]) IN
    [repo |-> original.repo, intent |-> "fix login 500", agent |-> original.agent,
     deliveryStrategy |-> orElse(original.deliveryStrategy, defaults.deliveryStrategy),
     baseBranch |-> orElse(original.baseBranch, defaults.baseBranch)]

\* the input rerunTask builds from the original's row (taskService.ts 364-372)
rerunInput(orig) ==
    LET original == toTask(taskRow[orig]) IN
    [repo |-> original.repo, intent |-> original.intent, agent |-> original.agent,
     deliveryStrategy |-> orElse(original.deliveryStrategy, defaults.deliveryStrategy),
     baseBranch |-> orElse(original.baseBranch, defaults.baseBranch)]

RerunTask(orig) ==
    /\ status[orig] # "NONE"
    /\ FreshIds # {}
    /\ CreateEffect(rerunInput(orig))
    /\ UNCHANGED <<gatewayVars, pollVars>>

\* ----------------------------------------------------------------- retry
\* A call the gate refuses throws before it writes anything: it changes no
\* variable, and what its caller receives is the gate's value.

\* the retry checks without the status check
RetryGateAnyStatus(t) ==
    IF ~snapshotExists THEN "SNAPSHOT_MISSING"
    ELSE IF missingFields THEN "RUNTIME_CONFIG_MISSING"
    ELSE "ACCEPT"

\* the retry checks without the runtime config check
RetryGateSnapshotOnly(t) ==
    IF status[t] # "WAIT_CLARIFY" THEN "STATE_CONFLICT"
    ELSE IF ~snapshotExists THEN "SNAPSHOT_MISSING"
    ELSE "ACCEPT"

\* taskService.ts 403-425; the error code thrown, or "ACCEPT"
RetryGate(t) ==
    IF status[t] # "WAIT_CLARIFY" THEN "STATE_CONFLICT"
    ELSE IF ~snapshotExists THEN "SNAPSHOT_MISSING"
    ELSE IF missingFields THEN "RUNTIME_CONFIG_MISSING"
    ELSE "ACCEPT"

\* repo.transition(t, next) followed by audit.append(rec), as retry and
\* reject do; either may throw, and what was written before stays written
TransitionAndLog(t, next, rec) ==
    /\ canTransition(status[t], next)
    /\ status' = [status EXCEPT ![t] = next]
    /\ statusLog' = [statusLog EXCEPT ![t] = Append(@, next)]
    /\ audit' = IF CanAppend(t, audit[t])
                THEN [audit EXCEPT ![t] = Append(@, rec)]
                ELSE audit
    /\ sinkLeft' = SinkAfter(t, audit'[t])

Retry(t) ==
    /\ status[t] # "NONE"
    /\ RetryGate(t) = "ACCEPT"
    /\ TransitionAndLog(t, "WAIT_APPROVE_WRITE",
                        Rec(t, "RETRY", "none", "none", "null", "none"))
    /\ UNCHANGED <<approvedBy, runningApprovals, progressByTask, runs, repoState, taskRow, createdTask, now, gatewayVars, pollVars>>

\* ---------------------------------------------------------------- reject
\* the reject check accepting WAIT_CLARIFY only
RejectGateClarifyOnly(t) ==
    IF status[t] # "WAIT_CLARIFY" THEN "STATE_CONFLICT" ELSE "ACCEPT"

\* taskService.ts 437-444
RejectGate(t) ==
    IF status[t] # "WAIT_CLARIFY" /\ status[t] # "WAIT_APPROVE_WRITE"
    THEN "STATE_CONFLICT" ELSE "ACCEPT"

\* reject writing the row without the status gate and without assertTransition
RejectUnchecked(t) ==
    /\ status[t] # "NONE"
    /\ status' = [status EXCEPT ![t] = "FAILED"]
    /\ statusLog' = [statusLog EXCEPT ![t] = Append(@, "FAILED")]
    /\ audit' = IF CanAppend(t, audit[t])
                THEN [audit EXCEPT ![t] =
                         Append(@, Rec(t, "REJECT", "none", "none", "null", "REJECT"))]
                ELSE audit
    /\ sinkLeft' = SinkAfter(t, audit'[t])
    /\ UNCHANGED <<approvedBy, runningApprovals, progressByTask, runs, repoState, taskRow, createdTask, now, gatewayVars, pollVars>>

\* reject passing the actor to repo.transition, as approve does
RejectStamps(t) ==
    /\ status[t] # "NONE"
    /\ RejectGate(t) = "ACCEPT"
    /\ TransitionAndLog(t, "FAILED",
                        Rec(t, "REJECT", "none", "none", "null", "REJECT"))
    /\ approvedBy' = [approvedBy EXCEPT ![t] = "tg:1"]
    /\ UNCHANGED <<runningApprovals, progressByTask, runs, repoState, taskRow, createdTask, now, gatewayVars, pollVars>>

Reject(t) ==
    /\ status[t] # "NONE"
    /\ RejectGate(t) = "ACCEPT"
    /\ TransitionAndLog(t, "FAILED",
                        Rec(t, "REJECT", "none", "none", "null", "REJECT"))
    /\ UNCHANGED <<approvedBy, runningApprovals, progressByTask, runs, repoState, taskRow, createdTask, now, gatewayVars, pollVars>>

\* --------------------------------------- approve: the service's handlers
\* catch (taskService.ts 527-559) followed by finally (560-562), entered
\* with rec the invocation so far, code the code derived from the caught
\* error, and st/lg/au the row, its history and the task's audit lines as
\* the try block left them.
ServiceCatch(r, rec, code, st, lg, au) ==
    LET t == rec.task IN
    /\ IF canTransition(st, "FAILED")
       THEN /\ status' = [status EXCEPT ![t] = "FAILED"]
            /\ statusLog' = [statusLog EXCEPT ![t] = Append(lg, "FAILED")]
            /\ progressByTask' = [progressByTask EXCEPT ![t] = "FAILED"]
            /\ IF CanAppend(t, au)
               THEN /\ audit' = [audit EXCEPT ![t] =
                                    Append(au, Rec(t, "FAILED", code, "none", "null", "none"))]
                    /\ runs' = [runs EXCEPT ![r] =
                                   [rec EXCEPT !.pc = "settled", !.outcome = code]]
               ELSE /\ audit' = [audit EXCEPT ![t] = au]
                    /\ runs' = [runs EXCEPT ![r] =
                                   [rec EXCEPT !.pc = "settled", !.outcome = "ERROR"]]
       ELSE /\ status' = [status EXCEPT ![t] = st]
            /\ statusLog' = [statusLog EXCEPT ![t] = lg]
            /\ progressByTask' = progressByTask
            /\ audit' = [audit EXCEPT ![t] = au]
            /\ runs' = [runs EXCEPT ![r] =
                           [rec EXCEPT !.pc = "settled", !.outcome = "ERROR"]]
    /\ sinkLeft' = SinkAfter(t, audit'[t])
    /\ runningApprovals' = runningApprovals \ {t}
    /\ UNCHANGED <<approvedBy, repoState, taskRow, createdTask, now, gatewayVars, pollVars>>

\* runner.run threw; code is the code the catch block derives from the error
RunnerThrew(r, rec, code) ==
    ServiceCatch(r, rec, code, status[rec.task], statusLog[rec.task], audit[rec.task])

\* runner.run returned (taskService.ts 491-526, then finally)
RunnerReturned(r, rec) ==
    LET t == rec.task
        au1 == Append(audit[t], Rec(t, "RUN", "none", rec.testsResult, "null", "none"))
        lg1 == Append(statusLog[t], "PR_CREATED")
        au2 == Append(au1, Rec(t, "PR_CREATED", "none", "none", rec.prLink, "none"))
        Complete(st, lg, au) ==
            IF ~canTransition(st, "COMPLETED")
            THEN ServiceCatch(r, rec, "RUN_FAILED", st, lg, au)
            ELSE /\ status' = [status EXCEPT ![t] = "COMPLETED"]
                 /\ statusLog' = [statusLog EXCEPT ![t] = Append(lg, "COMPLETED")]
                 /\ progressByTask' = [progressByTask EXCEPT ![t] = "COMPLETED"]
                 /\ audit' = [audit EXCEPT ![t] = au]
                 /\ sinkLeft' = SinkAfter(t, au)
                 /\ runs' = [runs EXCEPT ![r] =
                                [rec EXCEPT !.pc = "settled", !.outcome = "ok"]]
                 /\ runningApprovals' = runningApprovals \ {t}
                 /\ UNCHANGED <<approvedBy, repoState, taskRow, createdTask, now, gatewayVars, pollVars>>
    IN
    IF ~CanAppend(t, audit[t])
    THEN ServiceCatch(r, rec, "RUN_FAILED", status[t], statusLog[t], audit[t])
    ELSE IF rec.testsResult # "PASS"
    THEN ServiceCatch(r, rec, "TEST_FAILED", status[t], statusLog[t], au1)
    ELSE IF rec.prLink # "null"
    THEN IF ~canTransition(status[t], "PR_CREATED")
         THEN ServiceCatch(r, rec, "RUN_FAILED", status[t], statusLog[t], au1)
         ELSE IF ~CanAppend(t, au1)
         THEN ServiceCatch(r, rec, "RUN_FAILED", "PR_CREATED", lg1, au1)
         ELSE Complete("PR_CREATED", lg1, au2)
    ELSE Complete(status[t], statusLog[t], au1)

\* ----------------------------------------------- approve: the entry gate
\* taskService.ts 457-470
\* the gate without its status check
ApproveGateLockOnly(t) ==
    IF t \in runningApprovals THEN "STATE_CONFLICT" ELSE "ACCEPT"

ApproveGate(t) ==
    IF status[t] # "WAIT_APPROVE_WRITE" THEN "STATE_CONFLICT"
    ELSE IF t \in runningApprovals THEN "STATE_CONFLICT"
    ELSE "ACCEPT"

\* the entry letting every call through
ApproveEntryOpen(t) == "ACCEPT"

\* what the entry of the approve branch does with a call: refuse it with a
\* code (457-470), let repo.transition throw on it (475), or let it through

ApproveEntry(t) ==
    IF ApproveGate(t) # "ACCEPT" THEN ApproveGate(t)
    ELSE IF ~canTransition(status[t], "RUNNING") THEN "ERROR"
    ELSE "ACCEPT"

\* taskService.ts 471-490 and taskRunner.run up to its first await
ApproveAccepted(r, t, actor) ==
    /\ IdleRuns # {} /\ r = NextRun(t)
    /\ status[t] # "NONE"
    /\ ApproveEntry(t) \in {"ACCEPT", "ERROR"}
    /\ runningApprovals' = runningApprovals \cup {t}
    /\ UNCHANGED <<repoState, taskRow, createdTask, now, gatewayVars, pollVars>>
    /\ IF ApproveEntry(t) = "ERROR"
       THEN /\ progressByTask' = [progressByTask EXCEPT ![t] = "QUEUED"]
            /\ UNCHANGED <<status, approvedBy, statusLog, audit, runs, sinkLeft>>
       ELSE /\ status' = [status EXCEPT ![t] = "RUNNING"]
            /\ approvedBy' = [approvedBy EXCEPT ![t] = actor]
            /\ statusLog' = [statusLog EXCEPT ![t] = Append(@, "RUNNING")]
            /\ IF CanAppend(t, audit[t])
               THEN /\ audit' = [audit EXCEPT ![t] =
                                    Append(@, Rec(t, "APPROVE", "none", "none", "null", "APPROVE"))]
                    /\ progressByTask' = [progressByTask EXCEPT ![t] = "AGENT_RUNNING"]
                    /\ runs' = [runs EXCEPT ![r] =
                                   [IdleRun EXCEPT
                                       !.pc = "agent", !.task = t,
                                       !.snapshotCopied = snapshotWrites(taskRow[t].repo)]]
               ELSE /\ audit' = audit
                    /\ progressByTask' = [progressByTask EXCEPT ![t] = "QUEUED"]
                    /\ runs' = runs
            /\ sinkLeft' = SinkAfter(t, audit'[t])

\* ---------------------------------------------------- TaskRunner.run
\* pc "agent": between the AGENT_RUNNING progress report and the executor's
\* result; "sandbox": between the SANDBOX_TESTING report and the sandbox's
\* result; "pr": between the CREATING_PR report and the delivery's result.
\* What a collaborator finds on disk when it starts (snapshot present, the
\* test command the repo config resolves to) is read at a moment inside
\* that interval, so the step that delivers its result chooses it.
InRunner(r) == runs[r].pc \in {"agent", "sandbox", "pr"}

\* hostResult.cleanup(): cleanupTemp(tempDir) of the executor
Cleaned(rec) == [rec EXCEPT !.cleanups = @ + 1, !.hostTemp = "deleted"]
Staged(rec, stage) == [rec EXCEPT !.stages = Append(@, stage)]

\* the AGENT_RUNNING progress callback throws, outside any try of run()
ProgressAgentThrows(r) ==
    /\ runs[r].pc = "agent"
    /\ runs[r].stages = <<>>
    /\ RunnerThrew(r, [runs[r] EXCEPT !.cause = "progress"], "RUN_FAILED")

\* agentAdapter.buildCommand throws (unknown template key), outside any try
BuildCommandThrows(r) ==
    /\ runs[r].pc = "agent"
    /\ runs[r].stages = <<>>
    /\ RunnerThrew(r, [Staged(runs[r], "command") EXCEPT !.cause = "command template"],
                   "RUN_FAILED")

\* HostAgentExecutor.run rejects: the snapshot is not there (24-26), the
\* copy into the temporary directory fails (28-33), the agent command fails
\* (35-54) or diff fails (56, 69-80)
AgentFailures == {"snapshot", "copy", "command", "diff"}

\* the executor's temporary directory after it rejected
hostTempAfter(cause) ==
    CASE cause = "snapshot" -> "none"
      [] cause = "copy"     -> "live"
      [] cause = "command"  -> "deleted"
      [] cause = "diff"     -> "live"

\* the agent stage's failure recorded but not rethrown
AgentThrowsSwallowed(r, cause) ==
    /\ runs[r].pc = "agent"
    /\ cause \in AgentFailures
    /\ runs' = [runs EXCEPT ![r] =
                   [Staged(runs[r], "agent") EXCEPT
                       !.pc = "sandbox", !.diff = "empty", !.cause = cause,
                       !.outcome = "AGENT_FAILED", !.hostTemp = hostTempAfter(cause)]]
    /\ UNCHANGED <<status, approvedBy, statusLog, audit, runningApprovals,
                   progressByTask, repoState, sinkLeft, taskRow, createdTask, now, gatewayVars, pollVars>>

\* hostExecutor.run rejects: TaskRunnerError AGENT_FAILED
AgentThrows(r, cause) ==
    /\ runs[r].pc = "agent"
    /\ cause \in AgentFailures
    /\ RunnerThrew(r, [Staged(runs[r], "agent") EXCEPT
                          !.cause = cause, !.hostTemp = hostTempAfter(cause)],
                   "AGENT_FAILED")

\* hostExecutor.run resolves with diff d; SANDBOX_TESTING is reported
AgentReturns(r, d) ==
    /\ runs[r].pc = "agent"
    /\ runs' = [runs EXCEPT ![r] =
                   [Staged(runs[r], "agent") EXCEPT
                       !.pc = "sandbox", !.diff = d, !.hostTemp = "live",
                       !.snapshotDiffed = snapshotWrites(taskRow[runs[r].task].repo)]]
    /\ progressByTask' = [progressByTask EXCEPT ![runs[r].task] = "SANDBOX_TESTING"]
    /\ UNCHANGED <<status, approvedBy, statusLog, audit, runningApprovals,
                   repoState, sinkLeft, taskRow, createdTask, now, gatewayVars, pollVars>>

\* the SANDBOX_TESTING progress callback throws, inside the sandbox try
ProgressSandboxThrows(r) ==
    /\ runs[r].pc = "sandbox"
    /\ RunnerThrew(r, Cleaned([runs[r] EXCEPT !.cause = "progress"]), "SANDBOX_FAILED")

\* the test commands a repo's okaydokki.yaml may resolve to, as words
allowedTestCommands == << <<"npm", "test">> >>
TestCommands == {<<"npm", "test">>, <<"npm", "test", "&&", "publish">>}

\* a command passes when it begins like an allowed one
isAllowedByPrefix(command) ==
    \E k \in 1..Len(allowedTestCommands) :
        /\ Len(command) >= Len(allowedTestCommands[k])
        /\ SubSeq(command, 1, Len(allowedTestCommands[k])) = allowedTestCommands[k]

\* allowedCommands.includes(command)
isAllowedTestCommand(command) == InSeq(command, allowedTestCommands)

\* DockerSandbox.runValidation throws at assertAllowedTestCommand (40),
\* after mkdtemp (34) and before docker run (58)
SandboxRejects(r, command) ==
    /\ runs[r].pc = "sandbox"
    /\ ~isAllowedTestCommand(command)
    /\ RunnerThrew(r, Cleaned([Staged(runs[r], "sandbox") EXCEPT
                                  !.cause = "allowlist", !.testCommand = command,
                                  !.sandboxTemp = "live"]),
                   "SANDBOX_FAILED")

\* DockerSandbox.runValidation throws because the snapshot is not there
\* (28, 98-104)
SandboxSnapshotMissing(r) ==
    /\ runs[r].pc = "sandbox"
    /\ RunnerThrew(r, Cleaned([Staged(runs[r], "sandbox") EXCEPT !.cause = "snapshot"]),
                   "SANDBOX_FAILED")

\* docker run failed (78-90): the temporary directory is removed, then the
\* error thrown
SandboxThrows(r, command) ==
    /\ runs[r].pc = "sandbox"
    /\ isAllowedTestCommand(command)
    /\ RunnerThrew(r, Cleaned([Staged(runs[r], "sandbox") EXCEPT
                                  !.cause = "container", !.testCommand = command,
                                  !.container = TRUE, !.sandboxTemp = "deleted"]),
                   "SANDBOX_FAILED")

\* the exit code ignored
testsResultAlwaysPass(exitCode) == "PASS"

testsResultOf(exitCode) == IF exitCode = 0 THEN "PASS" ELSE "FAIL"

\* sandbox.runValidation resolves; taskRunner.run 63-80 (and 98-111 when
\* there is no diff)
SandboxReturns(r, command, exitCode) ==
    /\ runs[r].pc = "sandbox"
    /\ isAllowedTestCommand(command)
    /\ LET rec == [Staged(runs[r], "sandbox") EXCEPT
                      !.exit = exitCode, !.testCommand = command,
                      !.container = TRUE, !.sandboxTemp = "deleted"]
           diff == DiffText(rec.diff)
           hasDiff == hasDiffOf(diff)
           checked == IF hasDiff
                      THEN [Staged(rec, "policy") EXCEPT
                               !.violations = evaluateDiffPolicy(diff)]
                      ELSE rec
           tested == [checked EXCEPT !.testsResult = testsResultOf(exitCode)]
       IN IF hasDiff /\ Len(checked.violations) > 0
          THEN RunnerThrew(r, Cleaned(checked), "POLICY_VIOLATION")
          ELSE IF hasDiff
          THEN /\ runs' = [runs EXCEPT ![r] = [tested EXCEPT !.pc = "pr"]]
               /\ progressByTask' = [progressByTask EXCEPT ![rec.task] = "CREATING_PR"]
               /\ UNCHANGED <<status, approvedBy, statusLog, audit, runningApprovals,
                              repoState, sinkLeft, taskRow, createdTask, now, gatewayVars, pollVars>>
          ELSE RunnerReturned(r, Cleaned(tested))

\* the CREATING_PR progress callback throws, inside the delivery try
ProgressPrThrows(r) ==
    /\ runs[r].pc = "pr"
    /\ RunnerThrew(r, Cleaned([runs[r] EXCEPT !.cause = "progress"]), "PR_CREATE_FAILED")

\* PrCreator.createDraftPr rejects: the snapshot is not there (17-19), or
\* git or gh fails after syncCandidateToRepo rewrote the snapshot (21-57)
PrFailures == {"snapshot", "git"}

\* the delivery failure rethrown without the candidate's cleanup
PrThrowsNoCleanup(r, cause) ==
    /\ runs[r].pc = "pr"
    /\ cause \in PrFailures
    /\ RunnerThrew(r, [Staged(runs[r], "delivery") EXCEPT
                          !.cause = cause, !.snapshotTouched = (cause # "snapshot")],
                   "PR_CREATE_FAILED")

PrThrows(r, cause) ==
    /\ runs[r].pc = "pr"
    /\ cause \in PrFailures
    /\ RunnerThrew(r, Cleaned([Staged(runs[r], "delivery") EXCEPT
                                  !.cause = cause, !.snapshotTouched = (cause # "snapshot")]),
                   "PR_CREATE_FAILED")

PrLinks == {"https://example.com/pr/1"}

\* createDraftPr resolves: the snapshot's working tree was replaced by the
\* candidate and committed on the task branch
PrReturns(r, link) ==
    /\ runs[r].pc = "pr"
    /\ RunnerReturned(r, Cleaned([Staged(runs[r], "delivery") EXCEPT
                                     !.prLink = link, !.snapshotTouched = TRUE]))

\* ------------------------------------------------------------ environment
\* the snapshot directory is prepared, completed, or removed
SetRepo(s) ==
    /\ repoState # s
    /\ repoState' = s
    /\ UNCHANGED <<status, approvedBy, statusLog, audit, runningApprovals,
                   progressByTask, runs, sinkLeft, taskRow, createdTask, now, gatewayVars, pollVars>>

\* The clock of the process.  The model reads it at whole minutes, starting
\* one minute after the epoch; calls with no Tick between them read the same
\* Date.now().
Tick ==
    /\ now < (MaxTicks + 1) * TickMs
    /\ now' = now + TickMs
    /\ UNCHANGED <<status, approvedBy, statusLog, audit, runningApprovals,
                   progressByTask, runs, repoState, sinkLeft, taskRow, createdTask,
                   gatewayVars, pollVars>>

\* the audit file stops accepting appends after n more lines (disk full,
\* file made read-only) and stays that way
SinkBreaks(n) ==
    /\ sinkLeft = -1
    /\ sinkLeft' = n
    /\ UNCHANGED <<status, approvedBy, statusLog, audit, runningApprovals,
                   progressByTask, runs, repoState, taskRow, createdTask, now, gatewayVars, pollVars>>

\* ---------------------------------------------------------- specification
RunnerStep(r) ==
    \/ ProgressAgentThrows(r)
    \/ BuildCommandThrows(r)
    \/ \E c \in AgentFailures : AgentThrows(r, c)
    \/ \E d \in DiffNames : AgentReturns(r, d)
    \/ ProgressSandboxThrows(r)
    \/ SandboxSnapshotMissing(r)
    \/ \E c \in TestCommands :
          \/ SandboxRejects(r, c)
          \/ SandboxThrows(r, c)
          \/ \E e \in {0, 1} : SandboxReturns(r, c, e)
    \/ ProgressPrThrows(r)
    \/ \E c \in PrFailures : PrThrows(r, c)
    \/ \E l \in PrLinks : PrReturns(r, l)

Next ==
    \/ \E input \in CreateTaskInputs : CreateTask(input)
    \/ \E o \in TaskIds : RerunTask(o)
    \/ \E t \in TaskIds :
          \/ Retry(t)
          \/ Reject(t)
          \/ \E r \in RunIds, a \in Actors : ApproveAccepted(r, t, a)
    \/ \E r \in RunIds : RunnerStep(r)
    \/ \E s \in RepoStates : SetRepo(s)

Spec == Init /\ [][Next]_vars

FaultNext ==
    \/ Next
    \/ \E n \in 0..MaxSinkLeft : SinkBreaks(n)

FaultSpec == Init /\ [][FaultNext]_vars

\* Approved runs under fair scheduling: an agent, sandbox or delivery
\* invocation that was started terminates, so for every run the step that
\* delivers the pending result is eventually taken.  The audit file may stop
\* accepting appends.
LiveNext ==
    \/ \E input \in CreateTaskInputs : CreateTask(input)
    \/ \E t \in TaskIds, r \in RunIds, a \in Actors : ApproveAccepted(r, t, a)
    \/ \E r \in RunIds : RunnerStep(r)
    \/ \E n \in 0..MaxSinkLeft : SinkBreaks(n)

LiveSpec ==
    Init /\ [][LiveNext]_vars /\ \A r \in RunIds : WF_vars(RunnerStep(r))

\* The task store under a running clock: tasks are created and rerun while
\* time passes or stands still.
ClockNext ==
    \/ \E input \in CreateTaskInputs : CreateTask(input)
    \/ \E o \in TaskIds : RerunTask(o)
    \/ \E t \in TaskIds : Retry(t) \/ Reject(t)
    \/ \E s \in RepoStates : SetRepo(s)
    \/ Tick

ClockSpec == Init /\ [][ClockNext]_vars

\* ------------------------------------------------------------ chat gateway
\* One chat, one user (tg:1), one plan.  The service calls a handler makes
\* run inside the handler's step; a step ends where the handler awaits a
\* collaborator whose answer another step delivers.

\* the variables of the service and its surroundings
serviceVars ==
    <<status, approvedBy, statusLog, audit, runningApprovals, progressByTask,
      runs, repoState, sinkLeft, taskRow, createdTask>>

\* processedCallbacks without the entries older than the window
pruneProcessedCallbacks ==
    [d \in CallbackData |->
        IF now - processedCallbacks[d] > CALLBACK_DEDUP_TTL_MS
        THEN 0 ELSE processedCallbacks[d]]

\* the dedupe check refreshing nothing but answering from any entry, expired
\* or not
isProcessedCallbackForever(d) == processedCallbacks[d] # 0

isProcessedCallback(d) ==
    LET ts == pruneProcessedCallbacks[d] IN
    ts # 0 /\ now - ts <= CALLBACK_DEDUP_TTL_MS

markProcessedCallback(d) == [pruneProcessedCallbacks EXCEPT ![d] = now]

\* the version check of the plan callbacks comparing nothing
planIsCurrentAnyVersion(d) == pendingPlans

\* the plan is pending and the callback carries its version
planIsCurrent(d) == pendingPlans /\ planVersion = d.version

\* what createAndPresentTask hands to createTask, for a plan and for /task
GatewayInput ==
    [repo |-> "org/name", intent |-> "fix login 500", agent |-> "codex",
     deliveryStrategy |-> "isolated", baseBranch |-> "main"]

\* the message handleCallback answers with first
CallbackReply(d) ==
    CASE d.kind = "details" -> "details"
      [] isProcessedCallback(d) -> "Action already processed."
      [] d.kind \in {"plan_approve", "plan_revise", "plan_reject"} ->
            IF ~pendingPlans THEN "expired"
            ELSE IF ~planIsCurrent(d) THEN "Plan is outdated. Please review the latest version."
            ELSE d.kind
      [] OTHER ->
            IF status[d.taskId] = "NONE" THEN "TASK_NOT_FOUND" ELSE RetryGate(d.taskId)

\* handleCallback past the dedupe check
Dispatch(d) ==
    CASE d.kind = "plan_approve" /\ planIsCurrent(d) ->
            /\ pendingPlans' = FALSE
            /\ awaitingPlanFeedback' = FALSE
            /\ presenting' = presenting + 1
            /\ UNCHANGED <<serviceVars, planVersion, revising>>
      [] d.kind = "plan_revise" /\ planIsCurrent(d) ->
            /\ awaitingPlanFeedback' = TRUE
            /\ UNCHANGED <<serviceVars, pendingPlans, planVersion, revising, presenting>>
      [] d.kind = "plan_reject" /\ planIsCurrent(d) ->
            /\ pendingPlans' = FALSE
            /\ awaitingPlanFeedback' = FALSE
            /\ UNCHANGED <<serviceVars, planVersion, revising, presenting>>
      [] d.kind = "retry" /\ CallbackReply(d) = "ACCEPT" ->
            /\ TransitionAndLog(d.taskId, "WAIT_APPROVE_WRITE",
                                Rec(d.taskId, "RETRY", "none", "none", "null", "none"))
            /\ UNCHANGED <<approvedBy, runningApprovals, progressByTask, runs,
                           repoState, taskRow, createdTask>>
            /\ UNCHANGED <<pendingPlans, planVersion, awaitingPlanFeedback,
                           revising, presenting>>
      [] OTHER ->
            UNCHANGED <<serviceVars, pendingPlans, planVersion,
                        awaitingPlanFeedback, revising, presenting>>

HandleCallback(d) ==
    /\ UNCHANGED <<now, pollVars>>
    /\ IF d.kind = "details"
       THEN UNCHANGED <<serviceVars, pendingPlans, planVersion,
                        awaitingPlanFeedback, processedCallbacks, revising,
                        presenting>>
       ELSE IF isProcessedCallback(d)
       THEN /\ processedCallbacks' = pruneProcessedCallbacks
            /\ UNCHANGED <<serviceVars, pendingPlans, planVersion,
                           awaitingPlanFeedback, revising, presenting>>
       ELSE /\ processedCallbacks' = markProcessedCallback(d)
            /\ Dispatch(d)

\* the adapter hands a task button's callback to the gateway
TaskCallback(d) ==
    /\ HandleCallback(d)
    /\ lastCallback' = [data |-> d, at |-> now]

\* the adapter hands a plan button's callback to the gateway; which callback
\* came last is not kept on this path
PlanCallback(d) ==
    /\ HandleCallback(d)
    /\ UNCHANGED lastCallback

\* handlePlanAsync delivering the first draft of the plan
PlanDrafted ==
    /\ planVersion = 0
    /\ pendingPlans' = TRUE
    /\ planVersion' = 1
    /\ UNCHANGED <<serviceVars, now, lastCallback, pollVars, awaitingPlanFeedback, processedCallbacks,
                   revising, presenting>>

\* a text message while the session awaits feedback, up to chat.ask
HandlePlanFeedback ==
    /\ awaitingPlanFeedback
    /\ planVersion + revising < MaxVersion
    /\ awaitingPlanFeedback' = FALSE
    /\ revising' = IF pendingPlans THEN revising + 1 ELSE revising
    /\ UNCHANGED <<serviceVars, now, lastCallback, pollVars, pendingPlans, planVersion,
                   processedCallbacks, presenting>>

\* chat.ask returns the revised text
RevisionReturns ==
    /\ revising > 0
    /\ revising' = revising - 1
    /\ planVersion' = planVersion + 1
    /\ pendingPlans' = TRUE
    /\ UNCHANGED <<serviceVars, now, lastCallback, pollVars, awaitingPlanFeedback, processedCallbacks,
                   presenting>>

\* chat.ask throws
RevisionThrows ==
    /\ revising > 0
    /\ revising' = revising - 1
    /\ UNCHANGED <<serviceVars, now, lastCallback, pollVars, pendingPlans, planVersion,
                   awaitingPlanFeedback, processedCallbacks, presenting>>

\* plan_approve after its message is sent: createAndPresentTask
PresentTask ==
    /\ presenting > 0
    /\ FreshIds # {}
    /\ presenting' = presenting - 1
    /\ CreateEffect(GatewayInput)
    /\ UNCHANGED <<pendingPlans, planVersion, awaitingPlanFeedback,
                   processedCallbacks, revising, lastCallback, pollVars>>

\* plan_approve's message cannot be sent
PresentFails ==
    /\ presenting > 0
    /\ presenting' = presenting - 1
    /\ UNCHANGED <<serviceVars, now, lastCallback, pollVars, pendingPlans, planVersion,
                   awaitingPlanFeedback, processedCallbacks, revising>>

\* the plan flow inside one window of the callback dedupe: the plan's
\* buttons, feedback messages and revisions
PlanNext ==
    \/ PlanDrafted
    \/ \E d \in PlanCallbacks : PlanCallback(d)
    \/ HandlePlanFeedback
    \/ RevisionReturns
    \/ RevisionThrows
    \/ PresentTask
    \/ PresentFails

PlanSpec == Init /\ [][PlanNext]_vars

\* the task buttons: tasks are created, the snapshot comes and goes, and the
\* user taps Retry and Details
ButtonNext ==
    \/ CreateTask(GatewayInput)
    \/ \E s \in RepoStates : SetRepo(s)
    \/ Tick
    \/ \E d \in TaskCallbacks : TaskCallback(d)

ButtonSpec == Init /\ [][ButtonNext]_vars

\* -------------------------------------------------------- Telegram polling
\* loopPc: "fetch" = awaiting getUpdates, "handle" = awaiting handleUpdate
\* of a fetched update, "sleep" = awaiting the pause after a failed fetch.

\* everything but the adapter's polling state
restVars == <<serviceVars, now, gatewayVars>>

\* the while condition of pollLoop, and what follows it
LoopCheck(l) ==
    IF stopRequested
    THEN /\ loopPc' = [loopPc EXCEPT ![l] = "none"]
         /\ polling' = FALSE
    ELSE /\ loopPc' = [loopPc EXCEPT ![l] = "fetch"]
         /\ polling' = polling

\* the guard of startPolling: the call returns at once
startIgnored == polling

\* startPolling: returns at once while polling is set; else sets the flags
\* and runs pollLoop up to its first await
StartPolling ==
    /\ lastCall' = "start"
    /\ IF startIgnored
       THEN UNCHANGED <<polling, stopRequested, loopPc>>
       ELSE /\ \E l \in LoopIds : loopPc[l] = "none"
            /\ LET l == CHOOSE k \in LoopIds : loopPc[k] = "none" IN
               /\ polling' = TRUE
               /\ stopRequested' = FALSE
               /\ loopPc' = [loopPc EXCEPT ![l] = "fetch"]
    /\ lastCall # "start" \/ ~startIgnored
    /\ UNCHANGED <<updateOffset, restVars>>

StopPolling ==
    /\ lastCall # "stop"
    /\ lastCall' = "stop"
    /\ stopRequested' = TRUE
    /\ UNCHANGED <<polling, loopPc, updateOffset, restVars>>

\* getUpdates answered with one update: the offset moves past its id and
\* the update is handed to handleUpdate
FetchReturns(l, id) ==
    /\ loopPc[l] = "fetch"
    /\ loopPc' = [loopPc EXCEPT ![l] = "handle"]
    /\ updateOffset' = IF id + 1 > updateOffset THEN id + 1 ELSE updateOffset
    /\ UNCHANGED <<polling, stopRequested, lastCall, restVars>>

\* getUpdates failed or answered not ok: the loop pauses
FetchThrows(l) ==
    /\ loopPc[l] = "fetch"
    /\ loopPc' = [loopPc EXCEPT ![l] = "sleep"]
    /\ UNCHANGED <<polling, stopRequested, updateOffset, lastCall, restVars>>

\* the updates are handled, or the pause is over: back to the while
LoopTurns(l) ==
    /\ loopPc[l] \in {"handle", "sleep"}
    /\ LoopCheck(l)
    /\ UNCHANGED <<stopRequested, updateOffset, lastCall, restVars>>

LoopStep(l) ==
    \/ \E id \in 0..MaxUpdateId : FetchReturns(l, id)
    \/ FetchThrows(l)
    \/ LoopTurns(l)

PollNext ==
    \/ StartPolling
    \/ StopPolling
    \/ \E l \in LoopIds, id \in 0..MaxUpdateId : FetchReturns(l, id)
    \/ \E l \in LoopIds : FetchThrows(l)
    \/ \E l \in LoopIds : LoopTurns(l)

\* every awaited getUpdates, handler and pause settles
PollSpec ==
    Init /\ [][PollNext]_vars /\ \A l \in LoopIds : WF_vars(LoopStep(l))

\* the diff policy evaluator on its own: the runner's policy step applied to
\* each candidate diff, in either dialect, its verdict kept in the record
PolicyCheck(r, d) ==
    /\ runs[r].pc = "idle"
    /\ runs' = [runs EXCEPT ![r] =
                   [IdleRun EXCEPT
                       !.pc = "checked", !.diff = d, !.stages = <<"policy">>,
                       !.violations = evaluateDiffPolicy(DiffText(d)),
                       !.outcome = IF Len(evaluateDiffPolicy(DiffText(d))) > 0
                                   THEN "POLICY_VIOLATION" ELSE "none"]]
    /\ UNCHANGED <<status, approvedBy, statusLog, audit, runningApprovals,
                   progressByTask, repoState, sinkLeft, taskRow, createdTask, now, gatewayVars, pollVars>>

PolicyNext == \E r \in RunIds, d \in AllDiffNames : PolicyCheck(r, d)

PolicySpec == Init /\ [][PolicyNext]_vars

\* ------------------------------------------------- AuditLogger on its own
AUDIT_VERSION == "1.0"
ALLOWED_EVENT_TYPES ==
    {"REQUEST", "RETRY", "APPROVE", "REJECT", "RUN", "PR_CREATED", "FAILED"}

\* the records callers may hand to append.  auditVersion "absent" is the
\* field left out; taskId 0 is the empty string; timestamp "iso" parses as
\* a date, "bad" does not; agentLogs "mixed" holds a non-string.
AuditInputs ==
    [auditVersion : {"absent", "", "1.0", "2.0"},
     timestamp : {"", "bad", "iso"},
     taskId : {0} \cup TaskIds,
     triggerUser : {"", "tg:1"},
     eventType : {"REQUEST", "CHAT_REQUEST"},
     approvalDecision : {"absent", "REJECT", "MAYBE"},
     agentLogs : {"absent", "strings", "mixed"}]

\* auditLogger.ts 27-30: auditVersion: record.auditVersion ?? AUDIT_VERSION
normalized(record) ==
    [record EXCEPT !.auditVersion = IF @ = "absent" THEN AUDIT_VERSION ELSE @]

\* validate without the eventType check
validateAnyEventType(record) ==
    IF record.auditVersion = "" THEN "auditVersion is required"
    ELSE IF record.timestamp # "iso" THEN "timestamp must be a valid ISO datetime"
    ELSE IF record.taskId = 0 THEN "taskId is required"
    ELSE IF record.triggerUser = "" THEN "triggerUser is required"
    ELSE IF record.approvalDecision \notin {"absent", "APPROVE", "REJECT"}
         THEN "approvalDecision is invalid"
    ELSE IF record.agentLogs = "mixed" THEN "agentLogs must be an array of strings"
    ELSE "ok"

\* auditLogger.ts 35-61: the message of the Error thrown, or "ok"
validate(record) ==
    IF record.auditVersion = "" THEN "auditVersion is required"
    ELSE IF record.timestamp # "iso" THEN "timestamp must be a valid ISO datetime"
    ELSE IF record.taskId = 0 THEN "taskId is required"
    ELSE IF record.triggerUser = "" THEN "triggerUser is required"
    ELSE IF record.eventType \notin ALLOWED_EVENT_TYPES THEN "eventType is invalid"
    ELSE IF record.approvalDecision \notin {"absent", "APPROVE", "REJECT"}
         THEN "approvalDecision is invalid"
    ELSE IF record.agentLogs = "mixed" THEN "agentLogs must be an array of strings"
    ELSE "ok"

\* one call of append(record) by caller r: validate, then appendFileSync of
\* the whole line in one synchronous call.  The caller's record keeps what
\* the call did: pc "appended", or "raised" with the message in cause.
AuditAppend(r, record) ==
    /\ runs[r].pc = "idle"
    /\ LET line == normalized(record)
           verdict == validate(line)
       IN IF verdict = "ok"
          THEN /\ audit' = [audit EXCEPT ![line.taskId] = Append(@, line)]
               /\ runs' = [runs EXCEPT ![r] =
                              [IdleRun EXCEPT !.pc = "appended", !.task = line.taskId]]
          ELSE /\ audit' = audit
               /\ runs' = [runs EXCEPT ![r] =
                              [IdleRun EXCEPT !.pc = "raised", !.cause = verdict]]
    /\ UNCHANGED <<status, approvedBy, statusLog, runningApprovals,
                   progressByTask, repoState, sinkLeft, taskRow, createdTask, now, gatewayVars, pollVars>>

AuditNext == \E r \in RunIds, record \in AuditInputs : AuditAppend(r, record)

AuditSpec == Init /\ [][AuditNext]_vars

\* ------------------------------------------------------ reading the state
\* the approve calls accepted for task t, those still inside runner.run, and
\* the audit file's event types for t
RunsOf(t) == {r \in RunIds : runs[r].pc # "idle" /\ runs[r].task = t}
InFlight(t) == {r \in RunsOf(t) : InRunner(r)}
Events(t) == [i \in 1..Len(audit[t]) |-> audit[t][i].eventType]
Count(t, ev) == Cardinality({i \in 1..Len(audit[t]) : audit[t][i].eventType = ev})
LastRec(t) == audit[t][Len(audit[t])]
Visited(t, s) == \E i \in 1..Len(statusLog[t]) : statusLog[t][i] = s

\* runner.run returned a result to the service (it did not throw)
Returned(r) ==
    /\ runs[r].pc = "settled"
    /\ runs[r].testsResult # "none"
    /\ (runs[r].stages = <<"agent", "sandbox">> \/ runs[r].prLink # "null")

\* REQUEST, then RETRY when the task was created in WAIT_CLARIFY
AuditHead(t) ==
    IF statusLog[t][1] = "WAIT_CLARIFY" THEN <<"REQUEST", "RETRY">> ELSE <<"REQUEST">>

ErrorCodes ==
    {"AGENT_FAILED", "SANDBOX_FAILED", "POLICY_VIOLATION", "PR_CREATE_FAILED",
     "TEST_FAILED", "RUN_FAILED"}

\* the candidate diffs of DiffNames that break the configured policy
ViolatingDiffs == {"workflow"}

\* ------------------------------------------------------------------ claims

\* C1: of the approve calls made on a task in WAIT_APPROVE_WRITE, the first
\* is accepted and reaches the runner, every later one (while the first is
\* in flight or after it settled) is refused with STATE_CONFLICT; the task's
\* audit lines hold exactly one APPROVE record and at most one RUN record.
C1_ExactlyOneApproveAccepted ==
    \A t \in TaskIds :
        /\ Cardinality(RunsOf(t)) <= 1
        /\ Count(t, "APPROVE") = Cardinality(RunsOf(t))
        /\ Count(t, "RUN") <= Count(t, "APPROVE")
        /\ (status[t] = "WAIT_APPROVE_WRITE" => ApproveEntry(t) = "ACCEPT")
        /\ (RunsOf(t) # {} => ApproveEntry(t) = "STATE_CONFLICT")

\* a first approve is inside the runner: a second one arriving now is the
\* concurrent call of the claim
C1_Witness ==
    \E t \in TaskIds, r \in RunIds :
        /\ r \in InFlight(t)
        /\ runs[r].pc = "sandbox"
        /\ Count(t, "APPROVE") = 1
        /\ ApproveEntry(t) = "STATE_CONFLICT"

\* C2: at every moment every task has at most one runner invocation in
\* flight, whatever createTask, rerunTask, retry, reject and approve calls
\* are interleaved.
C2_SingleFlight ==
    \A t \in TaskIds : Cardinality(InFlight(t)) <= 1

\* two tasks run at once, one invocation each
C2_Witness ==
    \E t, u \in TaskIds :
        /\ t # u
        /\ Cardinality(InFlight(t)) = 1
        /\ Cardinality(InFlight(u)) = 1

\* the lifecycle table as the claim words it
LifecycleEdges ==
    {<<"WAIT_CLARIFY", "WAIT_APPROVE_WRITE">>, <<"WAIT_CLARIFY", "FAILED">>,
     <<"WAIT_APPROVE_WRITE", "RUNNING">>, <<"WAIT_APPROVE_WRITE", "FAILED">>,
     <<"RUNNING", "PR_CREATED">>, <<"RUNNING", "COMPLETED">>, <<"RUNNING", "FAILED">>,
     <<"PR_CREATED", "COMPLETED">>, <<"PR_CREATED", "FAILED">>}

\* C3: every change of a task's persisted status follows an edge of the
\* lifecycle table; nothing is skipped or reversed and COMPLETED and FAILED
\* are never left.
C3_StatusFollowsEdges ==
    \A t \in TaskIds :
        /\ \A i \in 1..(Len(statusLog[t]) - 1) :
               <<statusLog[t][i], statusLog[t][i + 1]>> \in LifecycleEdges
        /\ (status[t] # "NONE" => status[t] = statusLog[t][Len(statusLog[t])])

\* a task walked the longest path of the table
C3_Witness ==
    \E t \in TaskIds :
        statusLog[t] = <<"WAIT_CLARIFY", "WAIT_APPROVE_WRITE", "RUNNING",
                         "PR_CREATED", "COMPLETED">>

\* C4: a runner invocation exists for a task only if an approve on it was
\* accepted in WAIT_APPROVE_WRITE: the row went WAIT_APPROVE_WRITE -> RUNNING,
\* an APPROVE record is in the audit file, and while the runner's stages run
\* the status is RUNNING.
C4_RunnerOnlyAfterApprove ==
    \A r \in RunIds :
        runs[r].pc # "idle" =>
            LET t == runs[r].task IN
            /\ Count(t, "APPROVE") >= 1
            /\ approvedBy[t] # "null"
            /\ \E i \in 1..(Len(statusLog[t]) - 1) :
                   /\ statusLog[t][i] = "WAIT_APPROVE_WRITE"
                   /\ statusLog[t][i + 1] = "RUNNING"
            /\ (InRunner(r) => status[t] = "RUNNING")

\* the runner is about to call the delivery collaborator
C4_Witness ==
    \E r \in RunIds :
        /\ runs[r].pc = "pr"
        /\ status[runs[r].task] = "RUNNING"
        /\ Events(runs[r].task) = <<"REQUEST", "APPROVE">>

\* C5: a taskId is in the single-flight set only while the approve call that
\* put it there has not yet returned or thrown.
C5_LockReleasedOnEveryExit ==
    \A t \in runningApprovals : InFlight(t) # {}

\* C6: once an accepted approve has failed, the task is FAILED and the last
\* audit record of the task is a FAILED record carrying the code of the error
\* the caller received.
C6_FailureRecorded ==
    \A t \in TaskIds :
        (/\ approvedBy[t] # "null"
         /\ InFlight(t) = {}
         /\ \A r \in RunsOf(t) : runs[r].outcome # "ok")
        =>
        /\ status[t] = "FAILED"
        /\ Len(audit[t]) > 0
        /\ LastRec(t).eventType = "FAILED"
        /\ LastRec(t).errorCode \in ErrorCodes
        /\ \A r \in RunsOf(t) : runs[r].outcome = LastRec(t).errorCode

\* C7: no approve call has settled leaving its task RUNNING or PR_CREATED.
C7_NoPartialState ==
    \A t \in TaskIds :
        status[t] \in {"RUNNING", "PR_CREATED"} => InFlight(t) # {}

\* C8 as stated: exit code 0 is PASS and anything else FAIL; on FAIL the task
\* ends FAILED with TEST_FAILED, never visits PR_CREATED or COMPLETED, and
\* its audit sequence is REQUEST, APPROVE, RUN, FAILED.
C8_TestFailureAsStated ==
    \A r \in RunIds :
        Returned(r) =>
            LET t == runs[r].task IN
            /\ (runs[r].exit = 0 <=> runs[r].testsResult = "PASS")
            /\ (runs[r].exit # 0 <=> runs[r].testsResult = "FAIL")
            /\ (runs[r].testsResult = "FAIL" =>
                   /\ status[t] = "FAILED"
                   /\ runs[r].outcome = "TEST_FAILED"
                   /\ LastRec(t).errorCode = "TEST_FAILED"
                   /\ ~Visited(t, "PR_CREATED")
                   /\ ~Visited(t, "COMPLETED")
                   /\ Events(t) = <<"REQUEST", "APPROVE", "RUN", "FAILED">>)

\* C8 amended: the same, the audit sequence being REQUEST, then RETRY if the
\* task was created in WAIT_CLARIFY and retried, then APPROVE, RUN, FAILED.
C8_TestFailure ==
    \A r \in RunIds :
        Returned(r) =>
            LET t == runs[r].task IN
            /\ (runs[r].exit = 0 <=> runs[r].testsResult = "PASS")
            /\ (runs[r].exit # 0 <=> runs[r].testsResult = "FAIL")
            /\ (runs[r].testsResult = "FAIL" =>
                   /\ status[t] = "FAILED"
                   /\ runs[r].outcome = "TEST_FAILED"
                   /\ LastRec(t).errorCode = "TEST_FAILED"
                   /\ ~Visited(t, "PR_CREATED")
                   /\ ~Visited(t, "COMPLETED")
                   /\ Events(t) = AuditHead(t) \o <<"APPROVE", "RUN", "FAILED">>)

\* the runner returned FAIL for a task that had been retried out of
\* WAIT_CLARIFY
C8_Witness ==
    \E r \in RunIds :
        /\ Returned(r)
        /\ runs[r].exit = 1
        /\ runs[r].testsResult = "FAIL"
        /\ statusLog[runs[r].task][1] = "WAIT_CLARIFY"

\* C9: a task created in WAIT_APPROVE_WRITE (snapshot and runtime config
\* present) and approved, whose agent produced a non-empty compliant diff,
\* whose sandbox exited 0 and whose delivery returned a link, went
\* RUNNING -> PR_CREATED -> COMPLETED and its audit records are exactly
\* REQUEST, APPROVE, RUN, PR_CREATED.
C9_HappyPath ==
    \A r \in RunIds :
        (/\ runs[r].pc = "settled"
         /\ statusLog[runs[r].task][1] = "WAIT_APPROVE_WRITE"
         /\ runs[r].diff = "ok"
         /\ runs[r].exit = 0
         /\ runs[r].prLink # "null")
        =>
        LET t == runs[r].task IN
        /\ statusLog[t] = <<"WAIT_APPROVE_WRITE", "RUNNING", "PR_CREATED", "COMPLETED">>
        /\ status[t] = "COMPLETED"
        /\ runs[r].outcome = "ok"
        /\ Events(t) = <<"REQUEST", "APPROVE", "RUN", "PR_CREATED">>
        /\ LastRec(t).prLink = runs[r].prLink

C9_Witness ==
    \E r \in RunIds :
        /\ runs[r].pc = "settled"
        /\ statusLog[runs[r].task][1] = "WAIT_APPROVE_WRITE"
        /\ runs[r].diff = "ok"
        /\ runs[r].exit = 0
        /\ runs[r].prLink \in PrLinks
        /\ runs[r].stages = <<"agent", "sandbox", "policy", "delivery">>

EmptyDiffs == {"empty"}

\* C11 as stated: for an empty candidate diff the runner neither evaluates
\* the policy nor calls delivery, hasDiff is false and prLink null; if the
\* tests pass the task goes RUNNING -> COMPLETED without PR_CREATED and its
\* audit records are exactly REQUEST, APPROVE, RUN.
C11_EmptyDiffAsStated ==
    \A r \in RunIds :
        (runs[r].pc # "idle" /\ runs[r].diff \in EmptyDiffs) =>
            LET t == runs[r].task IN
            /\ ~InSeq("policy", runs[r].stages)
            /\ ~InSeq("delivery", runs[r].stages)
            /\ ~hasDiffOf(DiffText(runs[r].diff))
            /\ runs[r].prLink = "null"
            /\ ((runs[r].pc = "settled" /\ runs[r].testsResult = "PASS") =>
                   /\ status[t] = "COMPLETED"
                   /\ ~Visited(t, "PR_CREATED")
                   /\ Events(t) = <<"REQUEST", "APPROVE", "RUN">>)

\* C11 amended: the same, the audit records being REQUEST, then RETRY if the
\* task was created in WAIT_CLARIFY and retried, then APPROVE, RUN.
C11_EmptyDiff ==
    \A r \in RunIds :
        (runs[r].pc # "idle" /\ runs[r].diff \in EmptyDiffs) =>
            LET t == runs[r].task IN
            /\ ~InSeq("policy", runs[r].stages)
            /\ ~InSeq("delivery", runs[r].stages)
            /\ ~hasDiffOf(DiffText(runs[r].diff))
            /\ runs[r].prLink = "null"
            /\ ((runs[r].pc = "settled" /\ runs[r].testsResult = "PASS") =>
                   /\ status[t] = "COMPLETED"
                   /\ runs[r].outcome = "ok"
                   /\ ~Visited(t, "PR_CREATED")
                   /\ Events(t) = AuditHead(t) \o <<"APPROVE", "RUN">>)

\* an empty diff whose tests passed, on a task that had been retried
C11_Witness ==
    \E r \in RunIds :
        /\ runs[r].pc = "settled"
        /\ runs[r].diff = "empty"
        /\ runs[r].testsResult = "PASS"
        /\ statusLog[runs[r].task] =
               <<"WAIT_CLARIFY", "WAIT_APPROVE_WRITE", "RUNNING", "COMPLETED">>

\* ------------------------------------------------ claims about the runner
IsPrefix(a, b) == Len(a) <= Len(b) /\ SubSeq(b, 1, Len(a)) = a
StageOrder == <<"agent", "sandbox", "policy", "delivery">>
RunnerCodes == {"AGENT_FAILED", "SANDBOX_FAILED", "POLICY_VIOLATION", "PR_CREATE_FAILED"}

\* C12: within one run the stages are invoked in the order agent, sandbox,
\* policy, delivery, each only after the one before it returned, and once a
\* stage has failed the run is over: no later stage is invoked.
C12_StagesInOrder ==
    \A r \in RunIds :
        runs[r].pc # "idle" =>
            LET st == SelectSeq(runs[r].stages, LAMBDA x : x # "command") IN
            /\ IsPrefix(st, StageOrder)
            /\ (InSeq("sandbox", st) => runs[r].diff # "none")
            /\ (InSeq("policy", st) => runs[r].exit # -1)
            /\ (InSeq("delivery", st) =>
                   runs[r].violations = <<>> /\ runs[r].testsResult # "none")
            /\ (runs[r].outcome # "none" => runs[r].pc = "settled")
            /\ (runs[r].outcome = "AGENT_FAILED" => st = <<"agent">>)
            /\ (runs[r].outcome = "SANDBOX_FAILED" =>
                   st \in {<<"agent">>, <<"agent", "sandbox">>})
            /\ (runs[r].outcome = "POLICY_VIOLATION" =>
                   st = <<"agent", "sandbox", "policy">>)
            /\ (runs[r].outcome = "PR_CREATE_FAILED" =>
                   st \in {<<"agent", "sandbox", "policy">>, StageOrder})

\* one run went through all four stages, another stopped at the sandbox
C12_Witness ==
    \E r, q \in RunIds :
        /\ runs[r].stages = StageOrder
        /\ runs[q].outcome = "SANDBOX_FAILED"
        /\ runs[q].stages = <<"agent", "sandbox">>

\* C13: every failure of TaskRunner.run reaches the service with one of the
\* four typed codes, the code naming the stage that failed.
C13_EveryFailureTyped ==
    \A r \in RunIds :
        (runs[r].pc = "settled" /\ ~Returned(r)) =>
            /\ runs[r].outcome \in RunnerCodes
            /\ (runs[r].stages = <<>> => runs[r].outcome = "AGENT_FAILED")

\* C14: when the executor returned a candidate, its cleanup has run exactly
\* once by the time run() returns or throws, and not at all while the
\* sandbox or the delivery is still at work; without a candidate it never
\* runs.
C14_CleanupExactlyOnce ==
    \A r \in RunIds :
        /\ (runs[r].diff = "none" => runs[r].cleanups = 0)
        /\ (runs[r].pc \in {"sandbox", "pr"} =>
               runs[r].cleanups = 0 /\ runs[r].hostTemp = "live")
        /\ ((runs[r].pc = "settled" /\ runs[r].diff # "none") =>
               runs[r].cleanups = 1 /\ runs[r].hostTemp = "deleted")

\* the delivery failed after the candidate was handed to it
C14_Witness ==
    \E r \in RunIds :
        /\ runs[r].pc = "settled"
        /\ runs[r].outcome = "PR_CREATE_FAILED"
        /\ InSeq("delivery", runs[r].stages)
        /\ runs[r].cleanups = 1

\* C15: when a run has settled, no temporary directory made for it by the
\* executor or by the sandbox is left on disk.
C15_NoTempLeftBehind ==
    \A r \in RunIds :
        runs[r].pc = "settled" =>
            runs[r].hostTemp # "live" /\ runs[r].sandboxTemp # "live"

\* the diffs that change a file under a blocked prefix: VCS headers,
\* diff -ruN against /work, diff -ruN against the executor's workspace
BlockedDiffs == {"workflow", "secretsWork", "secretsHost"}

\* C16: a diff that changes a file under a blocked path prefix yields a
\* blocked-path violation in every dialect: VCS headers, diff -ruN against
\* /work, and diff -ruN with the executor's temporary workspace path.
C16_BlockedInEveryDialect ==
    \A r \in RunIds :
        (runs[r].pc = "checked" /\ runs[r].diff \in BlockedDiffs) =>
            InSeq("blocked path", runs[r].violations)

\* C17: a test command that is not literally one of the allowed commands
\* never gets a container started; the run ends SANDBOX_FAILED and the task
\* FAILED.
C17_AllowlistFailsClosed ==
    \A r \in RunIds :
        (runs[r].testCommand # <<>> /\ ~InSeq(runs[r].testCommand, allowedTestCommands)) =>
            LET t == runs[r].task IN
            /\ ~runs[r].container
            /\ runs[r].pc = "settled"
            /\ runs[r].outcome = "SANDBOX_FAILED"
            /\ runs[r].exit = -1
            /\ status[t] = "FAILED"
            /\ LastRec(t).eventType = "FAILED"
            /\ LastRec(t).errorCode = "SANDBOX_FAILED"

\* the repo's config resolved to a command that only begins like an allowed
\* one
C17_Witness ==
    \E r \in RunIds :
        /\ runs[r].testCommand = <<"npm", "test", "&&", "publish">>
        /\ runs[r].cause = "allowlist"
        /\ runs[r].outcome = "SANDBOX_FAILED"

\* C18: no run writes to the repository snapshot directory.
C18_SnapshotUntouched ==
    \A r \in RunIds : ~runs[r].snapshotTouched

\* C19: delivery is invoked only for runs whose tests passed and whose diff
\* passed the policy; a run whose tests failed ends FAILED with no PR
\* created.
C19_PrOnlyAfterPass ==
    \A r \in RunIds :
        /\ (InSeq("delivery", runs[r].stages) =>
               runs[r].testsResult = "PASS" /\ runs[r].violations = <<>>)
        /\ (runs[r].pc = "pr" => runs[r].testsResult = "PASS")
        /\ ((runs[r].pc = "settled" /\ runs[r].testsResult = "FAIL") =>
               status[runs[r].task] = "FAILED" /\ runs[r].prLink = "null")

Created(t) == status[t] = "NONE" /\ status'[t] # "NONE"
\* the records a step appends to the log of task t
NewRecs(t) == {audit'[t][i] : i \in (Len(audit[t]) + 1)..Len(audit'[t])}
RetryRec(t) == Rec(t, "RETRY", "none", "none", "null", "none")
RejectRec(t) == Rec(t, "REJECT", "none", "none", "null", "REJECT")
RequestRec(t) == Rec(t, "REQUEST", "none", "none", "null", "none")

\* C21: a task created while the repo snapshot exists enters
\* WAIT_APPROVE_WRITE; it enters WAIT_CLARIFY only if the snapshot is
\* missing.
C21_SnapshotDecides ==
    [][\A t \in TaskIds :
          Created(t) =>
              /\ (snapshotExists => status'[t] = "WAIT_APPROVE_WRITE")
              /\ (status'[t] = "WAIT_CLARIFY" => ~snapshotExists)]_vars

\* C22: once createTask has returned, the log of the new task holds exactly
\* one REQUEST record, and it is the task's first record.
C22_RequestFirst ==
    \A t \in TaskIds :
        status[t] # "NONE" =>
            /\ Len(audit[t]) >= 1
            /\ audit[t][1] = RequestRec(t)
            /\ Count(t, "REQUEST") = 1

\* one task has only its REQUEST record, another has gone on to a run
C22_Witness ==
    \E t, u \in TaskIds :
        /\ Events(t) = <<"REQUEST">>
        /\ Len(audit[u]) > 2
        /\ Count(u, "REQUEST") = 1

\* C23: retry on a task in any status other than WAIT_CLARIFY is refused
\* with STATE_CONFLICT; the task is not moved to WAIT_APPROVE_WRITE and no
\* RETRY record is appended.
C23_RetryRefusedElsewhere ==
    [][\A t \in TaskIds :
          status[t] \notin {"NONE", "WAIT_CLARIFY"} =>
              /\ RetryGate(t) = "STATE_CONFLICT"
              /\ (status'[t] = "WAIT_APPROVE_WRITE" => status[t] = "WAIT_APPROVE_WRITE")
              /\ \A rec \in NewRecs(t) : rec.eventType # "RETRY"]_vars

\* a task that was retried once and is now running, with the repo ready
C23_Witness ==
    \E t \in TaskIds :
        /\ status[t] = "RUNNING"
        /\ Count(t, "RETRY") = 1
        /\ repoState = "ready"
        /\ RetryGate(t) = "STATE_CONFLICT"

C25_RejectOnlyWhilePending ==
    [][\A t \in TaskIds :
          status[t] # "NONE" =>
              IF status[t] \in {"WAIT_CLARIFY", "WAIT_APPROVE_WRITE"}
              THEN /\ RejectGate(t) = "ACCEPT"
                   /\ (status'[t] = "FAILED" =>
                          audit'[t] = Append(audit[t], RejectRec(t)))
                   /\ (RejectRec(t) \in NewRecs(t) => status'[t] = "FAILED")
              ELSE /\ RejectGate(t) = "STATE_CONFLICT"
                   /\ \A rec \in NewRecs(t) : rec.eventType # "REJECT"]_vars

\* one task was rejected while another has a run in flight
C25_Witness ==
    \E t, u \in TaskIds :
        /\ status[t] = "FAILED"
        /\ LastRec(t) = RejectRec(t)
        /\ InFlight(u) # {}
        /\ RejectGate(u) = "STATE_CONFLICT"

\* C26: approvedBy is null in every status before RUNNING, is set to the
\* approving actor by the step WAIT_APPROVE_WRITE -> RUNNING and by no
\* other, and keeps its value afterwards; a task rejected while pending is
\* FAILED with approvedBy null.
C26_ApprovedByOnce ==
    [][\A t \in TaskIds :
          /\ (status[t] \in {"NONE", "WAIT_CLARIFY", "WAIT_APPROVE_WRITE"} =>
                 approvedBy[t] = "null")
          /\ (approvedBy'[t] # approvedBy[t] =>
                 /\ status[t] = "WAIT_APPROVE_WRITE"
                 /\ status'[t] = "RUNNING"
                 /\ approvedBy[t] = "null")
          /\ ((status[t] = "WAIT_APPROVE_WRITE" /\ status'[t] = "RUNNING") =>
                 approvedBy'[t] \in Actors)
          /\ ((status[t] \in {"WAIT_CLARIFY", "WAIT_APPROVE_WRITE"}
                  /\ status'[t] = "FAILED") => approvedBy'[t] = "null")]_vars

\* one task was rejected unapproved, another was approved and has finished
C26_Witness ==
    \E t, u \in TaskIds :
        /\ status[t] = "FAILED" /\ ~Visited(t, "RUNNING")
        /\ approvedBy[t] = "null"
        /\ status[u] = "COMPLETED"
        /\ approvedBy[u] \in Actors

\* what the contract asks of a line of the file
ValidLine(l) ==
    /\ l.auditVersion \notin {"", "absent"}
    /\ l.timestamp = "iso"
    /\ l.taskId \in TaskIds
    /\ l.triggerUser # ""
    /\ l.eventType \in ALLOWED_EVENT_TYPES
    /\ l.approvalDecision \in {"absent", "APPROVE", "REJECT"}
    /\ l.agentLogs \in {"absent", "strings"}

\* the tasks whose part of the file a step changes
Grown == {t \in TaskIds : audit'[t] # audit[t]}

\* every step leaves the lines already in the file in place and adds at most
\* one line, at the end; a call that returns has added one line, a call
\* that raises none
AppendOrRaise ==
    /\ \A t \in TaskIds : IsPrefix(audit[t], audit'[t])
    /\ Cardinality(Grown) <= 1
    /\ \A t \in Grown :
           /\ Len(audit'[t]) = Len(audit[t]) + 1
           /\ ValidLine(audit'[t][Len(audit'[t])])
           /\ audit'[t][Len(audit'[t])].taskId = t
    /\ \A r \in RunIds :
           (runs[r].pc = "idle" /\ runs'[r].pc # "idle") =>
               /\ (runs'[r].pc = "appended" => Cardinality(Grown) = 1)
               /\ (runs'[r].pc = "raised" => Grown = {})

C28_CausalOrder ==
    \A t \in TaskIds :
        LET e == Events(t)
            Before(a, b) ==
                \A j \in 1..Len(e) : e[j] = b => \E i \in 1..(j - 1) : e[i] = a
        IN
        /\ \A i \in 1..Len(e) : (e[i] = "REQUEST") <=> (i = 1)
        /\ \A i, j \in 1..Len(e) :
               (e[i] = "RETRY" /\ e[j] \in {"APPROVE", "REJECT"}) => i < j
        /\ Before("APPROVE", "RUN")
        /\ Before("RUN", "PR_CREATED")
        /\ \A i, j \in 1..Len(e) : (e[i] = "APPROVE" /\ e[j] = "RUN") => i < j
        /\ \A i, j \in 1..Len(e) : (e[i] = "RUN" /\ e[j] = "PR_CREATED") => i < j
        /\ \A i \in 1..Len(e) : e[i] \in {"REJECT", "FAILED"} => i = Len(e)

\* a full history on one task while a run of another is in flight
C28_Witness ==
    \E t, u \in TaskIds :
        /\ Events(t) = <<"REQUEST", "RETRY", "APPROVE", "RUN", "PR_CREATED">>
        /\ InFlight(u) # {}

\* a task's records without the taskId
EventRecs(t) ==
    [i \in 1..Len(audit[t]) |->
        [eventType |-> audit[t][i].eventType, errorCode |-> audit[t][i].errorCode,
         testsResult |-> audit[t][i].testsResult, prLink |-> audit[t][i].prLink,
         approvalDecision |-> audit[t][i].approvalDecision]]

\* C29: the audit records of a task determine its status: two tasks with
\* the same sequence of audit records are in the same status.
C29_ReplayDeterminesStatus ==
    \A t, u \in TaskIds :
        (status[t] # "NONE" /\ status[u] # "NONE" /\ EventRecs(t) = EventRecs(u)) =>
            status[t] = status[u]

\* C30: rerunTask on an existing task, whatever its status, inserts a row
\* under an id no row had, with the original's repo and intent, in the
\* status createTask chooses and with its own REQUEST record; the rows and
\* records of all other tasks stay as they were.
C30_RerunClones ==
    [][\A o \in TaskIds :
          RerunTask(o) =>
              LET n == newTaskId IN
              /\ status[n] = "NONE" /\ n # o
              /\ taskRow'[n].repo = taskRow[o].repo
              /\ taskRow'[n].intent = taskRow[o].intent
              /\ status'[n] = createStatus
              /\ audit'[n] = <<RequestRec(n)>>
              /\ \A u \in TaskIds \ {n} :
                     /\ status'[u] = status[u]
                     /\ audit'[u] = audit[u]
                     /\ taskRow'[u] = taskRow[u]
                     /\ approvedBy'[u] = approvedBy[u]]_vars

\* a clone of a task that has already failed, the original left in place
C30_Witness ==
    \E o, n \in TaskIds :
        /\ o < n
        /\ status[o] = "FAILED"
        /\ taskRow[o].intent = "add tests"
        /\ taskRow[n] = taskRow[o]
        /\ Events(n) = <<"REQUEST">>

\* C31: the task rerunTask creates has the agent, the delivery strategy and
\* the base branch the original task was created with.
C31_RerunKeepsStrategy ==
    [][\A o \in TaskIds :
          RerunTask(o) =>
              LET n == newTaskId IN
              /\ createdTask'[n].agent = createdTask[o].agent
              /\ createdTask'[n].deliveryStrategy = createdTask[o].deliveryStrategy
              /\ createdTask'[n].baseBranch = createdTask[o].baseBranch]_vars

\* C32: no two tasks have the same branch.
C32_BranchesDistinct ==
    \A t, u \in TaskIds :
        (t # u /\ status[t] # "NONE" /\ status[u] # "NONE") =>
            createdTask[t].branch # createdTask[u].branch

\* C33: a plan callback carrying a version other than the pending plan's
\* creates no task and leaves the plan as it is; a revision that comes back
\* raises the version by exactly one; and a callback that approves, closes or
\* opens the plan for revision carries the version the plan has then.
C33_StaleVersionIgnored ==
    [][/\ \A d \in PlanCallbacks :
             PlanCallback(d) =>
                 /\ (~pendingPlans \/ d.version # planVersion) =>
                        /\ status' = status /\ taskRow' = taskRow
                        /\ presenting' = presenting
                        /\ pendingPlans' = pendingPlans
                        /\ planVersion' = planVersion
                        /\ awaitingPlanFeedback' = awaitingPlanFeedback
                        /\ revising' = revising
                 /\ (presenting' # presenting \/ pendingPlans' # pendingPlans
                        \/ awaitingPlanFeedback' # awaitingPlanFeedback) =>
                        pendingPlans /\ d.version = planVersion
       /\ RevisionReturns => planVersion' = planVersion + 1
       /\ planVersion' # planVersion => (RevisionReturns \/ PlanDrafted)]_vars

\* the plan stands at version 2, still pending and never approved, after
\* the Approve button of version 1 was tapped
C33_Witness ==
    /\ pendingPlans /\ planVersion = 2 /\ presenting = 0
    /\ \A t \in TaskIds : status[t] = "NONE"
    /\ processedCallbacks[[kind |-> "plan_approve", taskId |-> 0, version |-> 1]] # 0
    /\ processedCallbacks[[kind |-> "plan_revise", taskId |-> 0, version |-> 1]] # 0
    /\ processedCallbacks[[kind |-> "plan_approve", taskId |-> 0, version |-> 2]] = 0

\* C34 as stated: a callback with the data of the callback received last,
\* less than two minutes after it, is answered 'Action already processed.'
\* and changes nothing.
C34_DedupAsStated ==
    [][\A d \in TaskCallbacks :
          (TaskCallback(d) /\ d.kind # "details" /\ lastCallback.data = d
             /\ now - lastCallback.at < CALLBACK_DEDUP_TTL_MS) =>
              /\ CallbackReply(d) = "Action already processed."
              /\ UNCHANGED serviceVars]_vars

\* C34 amended: a callback with the data of one that was processed (not
\* answered as a repeat) less than two minutes earlier is answered 'Action
\* already processed.', calls no service and changes no task, and its entry
\* keeps its time; Details callbacks are never answered so and leave no
\* entry; a callback whose entry is older than two minutes is processed
\* again and its entry takes the current time.
C34_Dedup ==
    [][\A d \in TaskCallbacks :
          TaskCallback(d) =>
              /\ (d.kind # "details" /\ processedCallbacks[d] # 0
                    /\ now - processedCallbacks[d] <= CALLBACK_DEDUP_TTL_MS) =>
                     /\ CallbackReply(d) = "Action already processed."
                     /\ UNCHANGED serviceVars
                     /\ processedCallbacks'[d] = processedCallbacks[d]
              /\ d.kind = "details" =>
                     /\ CallbackReply(d) # "Action already processed."
                     /\ processedCallbacks' = processedCallbacks
              /\ (d.kind # "details" /\ processedCallbacks[d] # 0
                    /\ now - processedCallbacks[d] > CALLBACK_DEDUP_TTL_MS) =>
                     /\ CallbackReply(d) # "Action already processed."
                     /\ processedCallbacks'[d] = now
                     /\ (RetryGate(d.taskId) = "ACCEPT" =>
                            status'[d.taskId] = "WAIT_APPROVE_WRITE")]_vars

\* a Retry tapped again after its window: the refused first tap is three
\* minutes old and the second tap moved the task
C34_Witness ==
    \E t \in TaskIds :
        LET d == [kind |-> "retry", taskId |-> t, version |-> 0] IN
        /\ lastCallback = [data |-> d, at |-> now]
        /\ processedCallbacks[d] = now
        /\ now = 4 * TickMs
        /\ Events(t) = <<"REQUEST", "RETRY">>

\* C35: a Retry callback on a WAIT_CLARIFY task whose snapshot and runtime
\* config are ready moves the task to WAIT_APPROVE_WRITE.
C35_RetryAfterPrepare ==
    [][\A t \in TaskIds :
          (TaskCallback([kind |-> "retry", taskId |-> t, version |-> 0])
             /\ status[t] = "WAIT_CLARIFY" /\ repoState = "ready") =>
              status'[t] = "WAIT_APPROVE_WRITE"]_vars

\* C36: once a run whose delivery returned a PR link has settled, the
\* task's audit log holds a PR_CREATED record with that link and the task
\* went through PR_CREATED.
C36_PrLinkRecorded ==
    \A r \in RunIds :
        (runs[r].pc = "settled" /\ runs[r].prLink # "null") =>
            /\ \E i \in 1..Len(audit[runs[r].task]) :
                   /\ audit[runs[r].task][i].eventType = "PR_CREATED"
                   /\ audit[runs[r].task][i].prLink = runs[r].prLink
            /\ \E i \in 1..Len(statusLog[runs[r].task]) :
                   statusLog[runs[r].task][i] = "PR_CREATED"

\* C37: the diff of a run is taken against the snapshot the run copied its
\* candidate from: no other run has written into the snapshot in between.
C37_RunsIsolated ==
    \A r \in RunIds :
        runs[r].diff # "none" => runs[r].snapshotDiffed = runs[r].snapshotCopied

\* C38: no run has its tests executed in the sandbox while the repo's
\* runtime config is missing or lacks a field: the sandbox stage fails
\* instead.
C38_TestsNeedCompleteConfig ==
    [][\A r \in RunIds :
          (~runs[r].container /\ runs'[r].container) => repoState # "incomplete"]_vars

\* C39: every task that is RUNNING eventually is COMPLETED or FAILED, and
\* every entry of the single-flight set is eventually removed.
C39_RunningEnds ==
    \A t \in TaskIds :
        /\ (status[t] = "RUNNING") ~> (status[t] \in {"COMPLETED", "FAILED"})
        /\ (t \in runningApprovals) ~> (t \notin runningApprovals)

\* C40: when the calls on the adapter end with startPolling, a poll loop
\* keeps fetching updates from then on; and at no time are two poll loops
\* running.
C40_StartNotLost ==
    /\ <>[](lastCall = "start") => []<>(\E l \in LoopIds : loopPc[l] = "fetch")
    /\ [](\A l, k \in LoopIds : (loopPc[l] # "none" /\ loopPc[k] # "none") => l = k)
====
